---- MODULE Spec2Model ----
(***************************************************************************)
(* The block-chaining and replication engine and the transaction-order     *)
(* optimizer of QuantumBlockchain.                                         *)
(*                                                                         *)
(* Blocks are Python objects (dicts in the network scripts, QuantumBlock   *)
(* instances in qtp.py) and every chain is a list of references to them,   *)
(* so the model keeps a heap of blocks and chains of heap addresses.       *)
(* Python's list index 0 is index 1 of a TLA+ sequence.                    *)
(*                                                                         *)
(* Quantumeth.py and quantumsolanaalgorithm.py share the text of the       *)
(* cloud, the node and the chain operations; "eth" stands for both.        *)
(***************************************************************************)
EXTENDS Integers, Sequences, FiniteSets, TLC

VARIABLES
    system,          \* which script runs: "eth" (Quantumeth.py), "cosmos", "qtp"
    nodes,           \* QuantumNetwork.nodes: sequence of node ids
    connected_nodes, \* QuantumCloud.connected_nodes: sequence of node ids
    chain,           \* QuantumNode.chain of every node: sequence of heap addresses
    global_chain,    \* QuantumNetwork.global_chain / QuantumBlockchain.chain
    heap,            \* the block objects, by address (1..Len(heap))
    str_hash,        \* the process's built-in hash() on the transaction texts
    pending,         \* the caller's list handed to optimize_transaction_order
    best_order,      \* the list optimize_transaction_order returned last
    writes,          \* how many block fields the caller has overwritten directly
    op,              \* the last operation called
    ret,             \* what it returned ("None", "True", "False") or raised
    contract,        \* QuantumNetwork.contract (Quantumeth.py): "None" or "Contract"
    web3_calls,      \* the calls to the Ethereum node made by the last ledger operation
    threads,         \* the callers inside add_block / broadcast: position and locals
    peer             \* a second process that optimizes the same list: its hash(), its result

vars == <<system, nodes, connected_nodes, chain, global_chain, heap,
          str_hash, pending, best_order, writes, op, ret,
          contract, web3_calls, threads, peer>>

-----------------------------------------------------------------------------
(* Bounds *)

MaxNodes == 2
MaxBlocks == 3
MaxTx == 3
MaxHash == 1
MaxWrites == 1
MaxCreates == 1
MaxThreads == 2
MaxRegistered == 3

(* Program constants *)

NumQubits == 4
HashLen == 64

-----------------------------------------------------------------------------
(* Text helpers *)

\* s * n of Python: n copies of the string s
RECURSIVE Repeat(_, _)
Repeat(s, n) == IF n <= 0 THEN "" ELSE s \o Repeat(s, n - 1)

\* ''.join(seq)
RECURSIVE Join(_)
Join(seq) == IF seq = <<>> THEN "" ELSE Head(seq) \o Join(Tail(seq))

RECURSIVE Pow2(_)
Pow2(n) == IF n = 0 THEN 1 ELSE 2 * Pow2(n - 1)

\* the sequences over S of length at most n
SeqUpTo(S, n) == UNION {[1..k -> S] : k \in 0..n}

\* hashlib.sha256(text.encode()).hexdigest(), taken to be collision free:
\* the digest stands for its preimage
Sha256Hex(text) == "sha256(" \o text \o ")"

\* '0' * 64, the previous_hash of the first block
GenesisHash == Repeat("0", HashLen)

-----------------------------------------------------------------------------
(* The quantum circuit *)

\* The final state vector of the fixed circuit (H on all four qubits, two
\* CNOTs, S and T): 16 amplitudes of modulus 1/4, each printed with :.4f
StateStr == Join([i \in 1..Pow2(NumQubits) |-> "0.2500"])

\* the bits of k, most significant first, as a text of w characters
RECURSIVE BitString(_, _)
BitString(k, w) ==
    IF w = 0 THEN ""
    ELSE BitString(k \div 2, w - 1) \o (IF k % 2 = 1 THEN "1" ELSE "0")

\* One shot of the circuit measures any of the 16 basis states; its
\* measurement_counts is {bits: 1}, printed as 'bits:1'
MeasurementStr(k) == BitString(k, NumQubits) \o ":" \o "1"

\* the outcomes followed here: the first and the last of the 16 basis states
SampledOutcomes == {0, Pow2(NumQubits) - 1}

Measurements == {MeasurementStr(k) : k \in SampledOutcomes}

\* Mutant: every script samples the circuit
SampledOutputs(sys) == Measurements

\* Mutant: every script simulates the state vector
SimulatedOutputs(sys) == {StateStr}

\* what the simulator can hand back in the running script
CircuitOutputs(sys) == IF sys = "cosmos" THEN Measurements ELSE {StateStr}

\* QuantumNode.generate_quantum_hash(data), the circuit having produced `out`
generate_quantum_hash(data, out) == Sha256Hex(data \o out)

\* QuantumBlock.generate_hash(): the digest of the state vector's text alone
generate_hash(out) == Sha256Hex(out)

-----------------------------------------------------------------------------
(* Inputs *)

Texts == {"a", "b", "ab"}

\* transaction batches handed to add_block; the last two join to the same text
Batches == {<<>>, <<"a", "b">>, <<"ab">>}

\* the hash values of the texts in one process (hash() may be negative)
HashFns == [Texts -> (0 - MaxHash)..MaxHash]

\* what a caller writes over a block's digest field
Tampered == Repeat("f", HashLen)

Range(f) == {f[i] : i \in DOMAIN f}
Last(seq) == seq[Len(seq)]

Block(transactions, previous_hash, hash) ==
    [transactions |-> transactions, previous_hash |-> previous_hash, hash |-> hash]

-----------------------------------------------------------------------------
(* QuantumCloud *)

\* Mutant: the loop stops one entry short of the registration list
RECURSIVE broadcast_but_last(_, _, _)
broadcast_but_last(ch, registered, block) ==
    IF Len(registered) <= 1 THEN ch
    ELSE broadcast_but_last([ch EXCEPT ![Head(registered)] = Append(@, block)],
                            Tail(registered), block)

\* broadcast(block): node.chain.append(block) for every entry of the
\* registration list, in order; the block itself is appended, not a copy
RECURSIVE broadcast(_, _, _)
broadcast(ch, registered, block) ==
    IF registered = <<>> THEN ch
    ELSE broadcast([ch EXCEPT ![Head(registered)] = Append(@, block)],
                   Tail(registered), block)

-----------------------------------------------------------------------------
(* QuantumNode *)

\* create_block builds the dict; the circuit has produced `out`
create_block(transactions, previous_hash, out) ==
    Block(transactions, previous_hash,
          generate_quantum_hash(Join(transactions) \o previous_hash, out))

\* QuantumBlock(transactions, previous_hash) of qtp.py
QuantumBlock(transactions, previous_hash, out) ==
    Block(transactions, previous_hash, generate_hash(out))

-----------------------------------------------------------------------------
(* QuantumNetwork / QuantumBlockchain *)

\* Mutant: links to the first block, global_chain[0], instead of the last
previous_hash_first(gc, h) ==
    IF gc # <<>> THEN h[gc[1]].hash ELSE GenesisHash

\* Mutant: a genesis sentinel one character short
previous_hash_short(gc, h) ==
    IF gc # <<>> THEN h[gc[Len(gc)]].hash ELSE Repeat("0", HashLen - 1)

\* global_chain[-1]["hash"] if global_chain else '0' * 64
previous_hash_of(gc, h) ==
    IF gc # <<>> THEN h[Last(gc)].hash ELSE GenesisHash

\* validate_chain: for i in range(1, len): return False at the first
\* block whose previous_hash differs from its predecessor's hash
RECURSIVE validate_from(_, _, _)
validate_from(gc, h, i) ==
    IF i > Len(gc) THEN TRUE
    ELSE IF h[gc[i]].previous_hash # h[gc[i - 1]].hash THEN FALSE
    ELSE validate_from(gc, h, i + 1)

\* Mutant: range(2, len) leaves the second block unchecked
validate_chain_skip(gc, h) == validate_from(gc, h, 3)

\* Mutant: the loop returns after its first round
validate_first_link_only(gc, h) ==
    Len(gc) < 2 \/ h[gc[2]].previous_hash = h[gc[1]].hash

\* Mutant: the first block's previous_hash is compared with '0' * 64 as well
validate_chain_from_genesis(gc, h) ==
    /\ gc # <<>> => h[gc[1]].previous_hash = GenesisHash
    /\ validate_from(gc, h, 2)

validate_chain(gc, h) == validate_from(gc, h, 2)

\* QuantumBlockchain.is_valid: the same loop over self.chain
is_valid(c, h) == validate_from(c, h, 2)

PyBool(b) == IF b THEN "True" ELSE "False"

IsNetwork == system \in {"eth", "cosmos"}

\* QuantumNetwork.__init__(num_nodes, ...): the nodes, each connected to the
\* cloud, and an empty global chain
InitNetwork(num_nodes) ==
    /\ nodes = [i \in 1..num_nodes |-> i]
    /\ connected_nodes = [i \in 1..num_nodes |-> i]
    /\ chain = [i \in 1..num_nodes |-> <<>>]
    /\ global_chain = <<>>
    /\ heap = <<>>

\* QuantumBlockchain.__init__(): an empty chain, no nodes and no cloud
InitBlockchain ==
    /\ nodes = <<>>
    /\ connected_nodes = <<>>
    /\ chain = <<>>
    /\ global_chain = <<>>
    /\ heap = <<>>

InitSystem ==
    \/ system \in {"eth", "cosmos"} /\ \E n \in 0..MaxNodes : InitNetwork(n)
    \/ system = "qtp" /\ InitBlockchain

\* the optimizer's hash table is not read by the chain operations
ZeroHashFn == [t \in Texts |-> 0]

\* a caller that is in no call
Idle == [pc |-> "idle", transactions |-> <<>>, previous_hash |-> "",
         new_block |-> 0, i |-> 0, before |-> <<>>]

Threads == 1..MaxThreads

\* self.contract = None; no caller is inside a call; the second process has
\* not started
InitRest ==
    /\ contract = "None"
    /\ web3_calls = <<>>
    /\ threads = [t \in Threads |-> Idle]
    /\ peer = [str_hash |-> ZeroHashFn, best_order |-> <<>>]

Init ==
    /\ InitSystem
    /\ InitRest
    /\ str_hash = ZeroHashFn
    /\ pending = <<>>
    /\ best_order = <<>>
    /\ writes = 0
    /\ op = "init"
    /\ ret = "None"

\* QuantumNetwork.add_block(transactions)
AddBlock(transactions) ==
    /\ IsNetwork
    /\ Len(heap) < MaxBlocks
    /\ op' = "add_block"
    /\ IF nodes = <<>>
       THEN \* self.nodes[0] raises IndexError before anything is appended
            /\ ret' = "IndexError"
            /\ UNCHANGED <<chain, global_chain, heap>>
       ELSE \E out \in CircuitOutputs(system) :
              LET previous_hash == previous_hash_of(global_chain, heap)
                  new_block == Len(heap) + 1
                  created == [chain EXCEPT ![nodes[1]] = Append(@, new_block)]
              IN /\ heap' = Append(heap, create_block(transactions, previous_hash, out))
                 /\ global_chain' = Append(global_chain, new_block)
                 /\ chain' = broadcast(created, connected_nodes, new_block)
                 /\ ret' = "None"
    /\ UNCHANGED <<contract, web3_calls, threads, peer, system, nodes, connected_nodes, str_hash, pending, best_order, writes>>

\* QuantumBlockchain.add_block(transactions)
BlockchainAddBlock(transactions) ==
    /\ system = "qtp"
    /\ Len(heap) < MaxBlocks
    /\ \E out \in CircuitOutputs(system) :
         LET previous_hash == previous_hash_of(global_chain, heap)
         IN /\ heap' = Append(heap, QuantumBlock(transactions, previous_hash, out))
            /\ global_chain' = Append(global_chain, Len(heap) + 1)
    /\ op' = "add_block"
    /\ ret' = "None"
    /\ UNCHANGED <<contract, web3_calls, threads, peer, system, nodes, connected_nodes, chain, str_hash, pending,
                   best_order, writes>>

\* QuantumNetwork.validate_chain()
ValidateChain ==
    /\ IsNetwork
    /\ op' = "validate"
    /\ ret' = PyBool(validate_chain(global_chain, heap))
    /\ UNCHANGED <<contract, web3_calls, threads, peer, system, nodes, connected_nodes, chain, global_chain, heap,
                   str_hash, pending, best_order, writes>>

\* QuantumBlockchain.is_valid()
IsValid ==
    /\ system = "qtp"
    /\ op' = "validate"
    /\ ret' = PyBool(is_valid(global_chain, heap))
    /\ UNCHANGED <<contract, web3_calls, threads, peer, system, nodes, connected_nodes, chain, global_chain, heap,
                   str_hash, pending, best_order, writes>>

Next ==
    \/ \E transactions \in Batches : AddBlock(transactions)
    \/ \E transactions \in Batches : BlockchainAddBlock(transactions)
    \/ ValidateChain
    \/ IsValid

Spec == Init /\ [][Next]_vars

-----------------------------------------------------------------------------
(* Callers that reach into the objects: a block is a mutable dict (a plain  *)
(* object in qtp.py), so c[i]["previous_hash"] = v is open to any holder   *)
(* of a chain c.                                                           *)

Holders == {global_chain} \cup Range(chain)

Overwrite(c, i, field, v) ==
    /\ writes < MaxWrites
    /\ heap' = [heap EXCEPT ![c[i]][field] = v]
    /\ writes' = writes + 1
    /\ op' = "overwrite"
    /\ ret' = "None"
    /\ UNCHANGED <<contract, web3_calls, threads, peer, system, nodes, connected_nodes, chain, global_chain,
                   str_hash, pending, best_order>>

NextMut ==
    \/ Next
    \/ \E c \in Holders : \E i \in 1..Len(c) :
         \/ \E v \in {GenesisHash, Tampered} : Overwrite(c, i, "previous_hash", v)
         \/ Overwrite(c, i, "hash", Tampered)

SpecMut == Init /\ [][NextMut]_vars

-----------------------------------------------------------------------------
(* Callers that create blocks directly *)

KnownHashes == {GenesisHash, previous_hash_of(global_chain, heap)}

\* the blocks made outside add_block
Created == Len(heap) - Len(global_chain)

\* node.create_block(transactions, previous_hash): the block is appended to
\* the node's own chain and returned
CreateBlock(n, transactions, previous_hash) ==
    /\ IsNetwork
    /\ Len(heap) < MaxBlocks
    /\ Created < MaxCreates
    /\ \E out \in CircuitOutputs(system) :
         heap' = Append(heap, create_block(transactions, previous_hash, out))
    /\ chain' = [chain EXCEPT ![n] = Append(@, Len(heap) + 1)]
    /\ op' = "create_block"
    /\ ret' = "block"
    /\ UNCHANGED <<contract, web3_calls, threads, peer, system, nodes, connected_nodes, global_chain, str_hash,
                   pending, best_order, writes>>

\* QuantumBlock(transactions, previous_hash): a block in no chain
NewQuantumBlock(transactions, previous_hash) ==
    /\ system = "qtp"
    /\ Len(heap) < MaxBlocks
    /\ Created < MaxCreates
    /\ \E out \in CircuitOutputs(system) :
         heap' = Append(heap, QuantumBlock(transactions, previous_hash, out))
    /\ op' = "create_block"
    /\ ret' = "block"
    /\ UNCHANGED <<contract, web3_calls, threads, peer, system, nodes, connected_nodes, chain, global_chain, str_hash,
                   pending, best_order, writes>>

NextNode ==
    \/ \E transactions \in Batches : AddBlock(transactions)
    \/ \E transactions \in Batches : BlockchainAddBlock(transactions)
    \/ \E n \in Range(nodes) : \E transactions \in Batches :
         \E previous_hash \in KnownHashes : CreateBlock(n, transactions, previous_hash)
    \/ \E transactions \in Batches : \E previous_hash \in KnownHashes :
         NewQuantumBlock(transactions, previous_hash)

SpecNode == Init /\ [][NextNode]_vars

-----------------------------------------------------------------------------
(* optimize_transaction_order *)

\* the sequence s without its i-th element
RemoveAt(s, i) == SubSeq(s, 1, i - 1) \o SubSeq(s, i + 1, Len(s))

\* itertools.permutations(s): every ordering of the positions of s, in
\* lexicographic order of the positions: the orderings that start with
\* position 1 come first, each followed by the orderings of the rest
RECURSIVE permutations(_)
permutations(s) ==
    IF s = <<>> THEN << <<>> >>
    ELSE LET n == Len(s)
             rest == [i \in 1..n |-> permutations(RemoveAt(s, i))]
             m == Len(rest[1])
         IN [k \in 1..(n * m) |->
               <<s[((k - 1) \div m) + 1]>>
                 \o rest[((k - 1) \div m) + 1][((k - 1) % m) + 1]]

Abs(x) == IF x < 0 THEN 0 - x ELSE x

\* calculate_cost(order): the sum of abs(hash(order[i]) - hash(order[i + 1]))
RECURSIVE calculate_cost(_, _)
calculate_cost(order, h) ==
    IF Len(order) < 2 THEN 0
    ELSE Abs(h[order[1]] - h[order[2]]) + calculate_cost(Tail(order), h)

\* float('inf') is <<>>, a finite cost c is <<c>>
Infinity == <<>>

\* Mutant: cost <= best_cost, the last of the cheapest orderings wins
CostLessOrEqual(cost, best_cost) == best_cost = Infinity \/ cost <= best_cost[1]

\* cost < best_cost
CostLess(cost, best_cost) == best_cost = Infinity \/ cost < best_cost[1]

\* <<best_order, best_cost>> after the first k rounds of the loop over `orders`
RECURSIVE search(_, _, _, _)
search(orders, k, h, start) ==
    IF k = 0 THEN start
    ELSE LET best == search(orders, k - 1, h, start)
             cost == calculate_cost(orders[k], h)
         IN IF CostLess(cost, best[2]) THEN <<orders[k], <<cost>> >> ELSE best

\* Mutant: best_order = [] and best_cost = 0 before the loop
optimize_from_nothing(transactions, h) ==
    LET orders == permutations(transactions)
    IN search(orders, Len(orders), h, << <<>>, <<0>> >>)[1]

\* best_order = transactions and best_cost = float('inf') before the loop;
\* list(best_order) after it
optimize_transaction_order(transactions, h) ==
    LET orders == permutations(transactions)
    IN search(orders, Len(orders), h, <<transactions, Infinity>>)[1]

\* a process with its own string hash, and a caller's list of transactions
\* (the method's text is the same in every network script)
InitOpt ==
    /\ system = "eth"
    /\ InitNetwork(MaxNodes)
    /\ InitRest
    /\ str_hash \in HashFns
    /\ pending \in SeqUpTo(Texts, MaxTx)
    /\ best_order = <<>>
    /\ writes = 0
    /\ op = "init"
    /\ ret = "None"

Optimize ==
    /\ IsNetwork
    /\ best_order' = optimize_transaction_order(pending, str_hash)
    /\ op' = "optimize"
    /\ ret' = "list"
    /\ UNCHANGED <<contract, web3_calls, threads, peer, system, nodes, connected_nodes, chain, global_chain, heap,
                   str_hash, pending, writes>>

NextOpt == Optimize

SpecOpt == InitOpt /\ [][NextOpt]_vars

-----------------------------------------------------------------------------
(* The ledger operations of Quantumeth.py. self.web3 talks to an Ethereum   *)
(* node; a call to it can fail, and whatever the operation had not yet done *)
(* then stays undone.                                                       *)

\* the calls to the Ethereum node an operation makes, in order
DeployCalls == <<"get_transaction_count", "send_raw_transaction",
                 "wait_for_transaction_receipt">>
CreateTransactionCalls == <<"get_transaction_count", "gas_price", "estimate_gas",
                            "gas_price", "send_raw_transaction">>
TransferCalls == <<"get_transaction_count", "send_raw_transaction">>

\* Mutant: the operations do not look at self.contract
not_deployed_unchecked(c) == FALSE

\* if not self.contract
not_deployed(c) == c = "None"

\* the operation makes its calls one after the other; one of them may raise
ConnectorCalls(calls, result) ==
    \E k \in 1..Len(calls) : \E ok \in BOOLEAN :
        /\ web3_calls' = SubSeq(calls, 1, k)
        /\ ret' = IF ok /\ k = Len(calls) THEN result ELSE "ConnectionError"

\* QuantumNetwork.deploy_erc20_contract(...)
DeployErc20Contract ==
    /\ system = "eth"
    /\ op' = "deploy_erc20_contract"
    /\ ConnectorCalls(DeployCalls, "None")
    /\ contract' = IF ret' = "None" THEN "Contract" ELSE contract
    /\ UNCHANGED <<threads, peer, system, nodes, connected_nodes, chain, global_chain,
                   heap, str_hash, pending, best_order, writes>>

\* QuantumNetwork.create_transaction(...)
CreateTransaction ==
    /\ system = "eth"
    /\ op' = "create_transaction"
    /\ IF not_deployed(contract)
       THEN /\ ret' = "ValueError"
            /\ web3_calls' = <<>>
       ELSE ConnectorCalls(CreateTransactionCalls, "tx_hash")
    /\ UNCHANGED <<contract, threads, peer, system, nodes, connected_nodes, chain,
                   global_chain, heap, str_hash, pending, best_order, writes>>

\* QuantumNetwork.transfer_erc20(...)
TransferErc20 ==
    /\ system = "eth"
    /\ op' = "transfer_erc20"
    /\ IF not_deployed(contract)
       THEN /\ ret' = "ValueError"
            /\ web3_calls' = <<>>
       ELSE ConnectorCalls(TransferCalls, "None")
    /\ UNCHANGED <<contract, threads, peer, system, nodes, connected_nodes, chain,
                   global_chain, heap, str_hash, pending, best_order, writes>>

NextLedger ==
    \/ \E transactions \in Batches : AddBlock(transactions)
    \/ ValidateChain
    \/ DeployErc20Contract
    \/ CreateTransaction
    \/ TransferErc20

InitLedger == Init /\ system = "eth"

SpecLedger == InitLedger /\ [][NextLedger]_vars

-----------------------------------------------------------------------------
(* add_block statement by statement, for callers on several threads. The    *)
(* method takes no lock, so another caller's statement can run between any  *)
(* two statements of a call. A thread's record holds the line it is about   *)
(* to run (pc) and the call's local variables.                              *)

\* no caller is inside a call
Quiescent == \A t \in Threads : threads[t].pc = "idle"

\* the blocks that calls in progress are still to create
ToCreate == Cardinality({t \in Threads : threads[t].pc \in {"previous_hash", "create_block"}})

\* a thread calls add_block(transactions)
CallAddBlock(t, transactions) ==
    /\ IsNetwork
    /\ threads[t].pc = "idle"
    /\ Len(heap) + ToCreate < MaxBlocks
    /\ threads' = [threads EXCEPT ![t] =
                     [Idle EXCEPT !.pc = "previous_hash", !.transactions = transactions]]
    /\ UNCHANGED <<contract, web3_calls, peer, system, nodes, connected_nodes, chain,
                   global_chain, heap, str_hash, pending, best_order, writes, op, ret>>

\* previous_hash = self.global_chain[-1]['hash'] if self.global_chain else '0' * 64
ReadPreviousHash(t) ==
    /\ threads[t].pc = "previous_hash"
    /\ threads' = [threads EXCEPT ![t].previous_hash = previous_hash_of(global_chain, heap),
                                  ![t].pc = "create_block"]
    /\ UNCHANGED <<contract, web3_calls, peer, system, nodes, connected_nodes, chain,
                   global_chain, heap, str_hash, pending, best_order, writes, op, ret>>

\* self.nodes[0].create_block(transactions, previous_hash), up to the block dict
BuildBlock(t) ==
    /\ threads[t].pc = "create_block"
    /\ IF nodes = <<>>
       THEN \* self.nodes[0] raises IndexError: the call ends here
            /\ threads' = [threads EXCEPT ![t] = Idle]
            /\ op' = "add_block"
            /\ ret' = "IndexError"
            /\ UNCHANGED heap
       ELSE \E out \in CircuitOutputs(system) :
              /\ heap' = Append(heap, create_block(threads[t].transactions,
                                                   threads[t].previous_hash, out))
              /\ threads' = [threads EXCEPT ![t].new_block = Len(heap) + 1,
                                            ![t].pc = "chain_append"]
              /\ UNCHANGED <<op, ret>>
    /\ UNCHANGED <<contract, web3_calls, peer, system, nodes, connected_nodes, chain,
                   global_chain, str_hash, pending, best_order, writes>>

\* create_block: self.chain.append(block); return block
NodeChainAppend(t) ==
    /\ threads[t].pc = "chain_append"
    /\ chain' = [chain EXCEPT ![nodes[1]] = Append(@, threads[t].new_block)]
    /\ threads' = [threads EXCEPT ![t].pc = "global_append"]
    /\ UNCHANGED <<contract, web3_calls, peer, system, nodes, connected_nodes,
                   global_chain, heap, str_hash, pending, best_order, writes, op, ret>>

\* self.global_chain.append(new_block)
GlobalChainAppend(t) ==
    /\ threads[t].pc = "global_append"
    /\ global_chain' = Append(global_chain, threads[t].new_block)
    /\ threads' = [threads EXCEPT ![t].pc = "broadcast", ![t].i = 1]
    /\ UNCHANGED <<contract, web3_calls, peer, system, nodes, connected_nodes, chain,
                   heap, str_hash, pending, best_order, writes, op, ret>>

\* Mutant: the loop leaves out a node it has already visited
visit_once(registered, i) ==
    \A j \in 1..(i - 1) : registered[j] # registered[i]

\* Mutant: the loop appends to no node
visit_never(registered, i) == FALSE

\* for node in self.connected_nodes: every entry of the list is visited
visit(registered, i) == TRUE

\* one round of the loop of QuantumCloud.broadcast: node.chain.append(block),
\* or the end of the list, where broadcast and the call that made it return
BroadcastStep(t) ==
    /\ threads[t].pc = "broadcast"
    /\ IF threads[t].i <= Len(connected_nodes)
       THEN /\ chain' = IF visit(connected_nodes, threads[t].i)
                        THEN [chain EXCEPT ![connected_nodes[threads[t].i]] =
                                              Append(@, threads[t].new_block)]
                        ELSE chain
            /\ threads' = [threads EXCEPT ![t].i = @ + 1]
            /\ UNCHANGED <<op, ret>>
       ELSE /\ threads' = [threads EXCEPT ![t] = Idle]
            /\ op' = IF threads[t].before = <<>> THEN "add_block" ELSE "broadcast"
            /\ ret' = "None"
            /\ UNCHANGED chain
    /\ UNCHANGED <<contract, web3_calls, peer, system, nodes, connected_nodes,
                   global_chain, heap, str_hash, pending, best_order, writes>>

NextThreads ==
    \/ \E t \in Threads : \E transactions \in Batches : CallAddBlock(t, transactions)
    \/ \E t \in Threads : ReadPreviousHash(t)
    \/ \E t \in Threads : BuildBlock(t)
    \/ \E t \in Threads : NodeChainAppend(t)
    \/ \E t \in Threads : GlobalChainAppend(t)
    \/ \E t \in Threads : BroadcastStep(t)

InitThreads == Init /\ IsNetwork

SpecThreads == InitThreads /\ [][NextThreads]_vars

-----------------------------------------------------------------------------
(* Two processes that run optimize_transaction_order on the same list.      *)
(* hash() of a str is salted per process (PYTHONHASHSEED), so each process  *)
(* has its own table of hash values.                                        *)

InitTwoProcesses ==
    /\ system = "eth"
    /\ InitNetwork(MaxNodes)
    /\ contract = "None"
    /\ web3_calls = <<>>
    /\ threads = [t \in Threads |-> Idle]
    /\ str_hash \in HashFns
    /\ peer \in [str_hash : HashFns, best_order : {<<>>}]
    /\ pending \in SeqUpTo(Texts, MaxTx)
    /\ best_order = <<>>
    /\ writes = 0
    /\ op = "init"
    /\ ret = "None"

\* the second process calls optimize_transaction_order(pending)
PeerOptimize ==
    /\ IsNetwork
    /\ peer' = [peer EXCEPT !.best_order =
                              optimize_transaction_order(pending, peer.str_hash)]
    /\ op' = "peer_optimize"
    /\ ret' = "list"
    /\ UNCHANGED <<contract, web3_calls, threads, system, nodes, connected_nodes, chain,
                   global_chain, heap, str_hash, pending, best_order, writes>>

NextTwoProcesses == Optimize \/ PeerOptimize

SpecTwoProcesses == InitTwoProcesses /\ [][NextTwoProcesses]_vars

-----------------------------------------------------------------------------
(* The cloud on its own: a caller builds a QuantumCloud and some nodes,     *)
(* registers nodes with connect_node as often as it likes, and broadcasts   *)
(* blocks that nodes created. The caller makes one call at a time. The      *)
(* cloud does not look into a block, so the blocks all carry one batch.     *)

InitCloud ==
    /\ system \in {"eth", "cosmos"}
    /\ \E n \in 1..MaxNodes :
         /\ nodes = [i \in 1..n |-> i]
         /\ chain = [i \in 1..n |-> <<>>]
    /\ connected_nodes = <<>>
    /\ global_chain = <<>>
    /\ heap = <<>>
    /\ InitRest
    /\ str_hash = ZeroHashFn
    /\ pending = <<>>
    /\ best_order = <<>>
    /\ writes = 0
    /\ op = "init"
    /\ ret = "None"

\* QuantumCloud.connect_node(node)
ConnectNode(n) ==
    /\ Quiescent
    /\ Len(connected_nodes) < MaxRegistered
    /\ connected_nodes' = Append(connected_nodes, n)
    /\ op' = "connect_node"
    /\ ret' = "None"
    /\ UNCHANGED <<contract, web3_calls, threads, peer, system, nodes, chain,
                   global_chain, heap, str_hash, pending, best_order, writes>>

\* QuantumCloud.broadcast(block): the call, with the replicas as they are now
CallBroadcast(t, block) ==
    /\ Quiescent
    /\ \A n \in DOMAIN chain :
         Len(chain[n]) + Cardinality({i \in DOMAIN connected_nodes :
                                        connected_nodes[i] = n}) <= MaxBlocks
    /\ threads' = [threads EXCEPT ![t] =
                     [Idle EXCEPT !.pc = "broadcast", !.new_block = block,
                                  !.i = 1, !.before = chain]]
    /\ UNCHANGED <<contract, web3_calls, peer, system, nodes, connected_nodes, chain,
                   global_chain, heap, str_hash, pending, best_order, writes, op, ret>>

NextCloud ==
    \/ \E n \in Range(nodes) : ConnectNode(n)
    \/ \E n \in Range(nodes) : Quiescent /\ CreateBlock(n, <<"ab">>, GenesisHash)
    \/ \E block \in DOMAIN heap : CallBroadcast(1, block)
    \/ BroadcastStep(1)

SpecCloud == InitCloud /\ [][NextCloud]_vars

-----------------------------------------------------------------------------
(* add_block statement by statement with a single caller: the states in     *)
(* between the statements of one call, one call after the other.            *)

NextOneCaller ==
    \/ \E transactions \in Batches : CallAddBlock(1, transactions)
    \/ ReadPreviousHash(1)
    \/ BuildBlock(1)
    \/ NodeChainAppend(1)
    \/ GlobalChainAppend(1)
    \/ BroadcastStep(1)

SpecOneCaller == InitThreads /\ [][NextOneCaller]_vars

-----------------------------------------------------------------------------
(* Properties *)

\* what a holder of the chain c sees: the blocks' fields, in order
View(c, h) == [i \in 1..Len(c) |-> h[c[i]]]

\* chain[i].previous_hash == chain[i-1].hash for every i > 0
Linked(c, h) ==
    \A i \in 2..Len(c) : h[c[i]].previous_hash = h[c[i - 1]].hash

\* C1. Chain-link invariant: after any sequence of add_block calls on a fresh
\* network, with the simulated or the sampled circuit, every block of the
\* canonical chain but the first carries its predecessor's hash as previous_hash.
C1_ChainLinked == Linked(global_chain, heap)

C1_Witness ==
    /\ system = "cosmos"
    /\ op = "add_block"
    /\ Len(global_chain) >= 3
    /\ heap[global_chain[3]].previous_hash = heap[global_chain[2]].hash
    /\ heap[global_chain[2]].hash # heap[global_chain[1]].hash

\* C2. Genesis invariant: the first block of the canonical chain has the
\* previous_hash of 64 characters '0', and validation of a chain of zero or
\* one block (a fresh network included) answers True.
C2_Genesis ==
    /\ global_chain # <<>> =>
         heap[global_chain[1]].previous_hash =
           "0000000000000000000000000000000000000000000000000000000000000000"
    /\ (op = "validate" /\ Len(global_chain) <= 1) => ret = "True"

C2_Witness ==
    /\ op = "validate"
    /\ Len(global_chain) = 1
    /\ Len(heap[global_chain[1]].previous_hash) = 64
    /\ ret = "True"

\* C3. Replication length: after k add_block calls every registered node,
\* the producer nodes[0] included, holds a replica of length k, the length
\* of the canonical chain.
C3_ReplicaLengths ==
    \A n \in Range(connected_nodes) : Len(chain[n]) = Len(global_chain)

\* C4. Replication fidelity: right after a completed add_block, the last block
\* of every registered node's replica equals the last block of the canonical
\* chain in all three fields.
C4_ReplicationFidelity ==
    (op = "add_block" /\ ret = "None") =>
        \A n \in Range(connected_nodes) :
            /\ chain[n] # <<>>
            /\ heap[Last(chain[n])].transactions = heap[Last(global_chain)].transactions
            /\ heap[Last(chain[n])].previous_hash = heap[Last(global_chain)].previous_hash
            /\ heap[Last(chain[n])].hash = heap[Last(global_chain)].hash

C4_Witness ==
    /\ op = "add_block"
    /\ ret = "None"
    /\ Len(connected_nodes) = 2
    /\ Len(global_chain) = 2
    /\ Len(chain[2]) = 2

\* C5. Independent copies: overwriting a field of a block through one holder
\* (the canonical chain or one node's replica) changes what at most that one
\* holder sees; every other replica and the canonical chain keep their blocks.
C5_IndependentCopies ==
    [][op' = "overwrite" =>
        /\ \A n \in DOMAIN chain :
             \/ View(global_chain, heap') = View(global_chain, heap)
             \/ View(chain[n], heap') = View(chain[n], heap)
        /\ \A n, m \in DOMAIN chain :
             \/ n = m
             \/ View(chain[n], heap') = View(chain[n], heap)
             \/ View(chain[m], heap') = View(chain[m], heap)]_vars

\* C6. Append-only canonical chain with fixed membership: every add_block call
\* makes the canonical chain one block longer, keeps the blocks already in it
\* and their positions, and leaves the network's and the cloud's node lists
\* as constructed.
C6_AppendOnlyFixedMembership ==
    [][op' = "add_block" =>
        /\ Len(global_chain') = Len(global_chain) + 1
        /\ SubSeq(View(global_chain', heap'), 1, Len(global_chain))
             = View(global_chain, heap)
        /\ nodes' = nodes
        /\ connected_nodes' = connected_nodes
        /\ connected_nodes = nodes
        /\ nodes = [i \in 1..Len(nodes) |-> i]]_vars

\* The same for the calls that complete: the statement of C6 holds of every
\* add_block that does not raise, that is, on a network with a producer node.
AppendOnlyWhenCompleted ==
    [][(op' = "add_block" /\ ret' = "None") =>
        /\ Len(global_chain') = Len(global_chain) + 1
        /\ SubSeq(View(global_chain', heap'), 1, Len(global_chain))
             = View(global_chain, heap)
        /\ nodes' = nodes
        /\ connected_nodes' = connected_nodes
        /\ connected_nodes = nodes
        /\ nodes = [i \in 1..Len(nodes) |-> i]]_vars

\* C7. validate() is a pure read of the link predicate: on any chain contents
\* it answers False exactly when some block after the first does not carry
\* its predecessor's hash, and it changes no chain, replica or node list.
C7_ValidateIsLinkPredicate ==
    [][op' = "validate" =>
        /\ ret' = (IF \E i \in 2..Len(global_chain) :
                         heap[global_chain[i]].previous_hash
                           # heap[global_chain[i - 1]].hash
                   THEN "False" ELSE "True")
        /\ UNCHANGED <<global_chain, heap, chain, connected_nodes, nodes>>]_vars

C7_Witness ==
    /\ op = "validate"
    /\ ret = "False"
    /\ Len(global_chain) = 3
    /\ heap[global_chain[2]].previous_hash = heap[global_chain[1]].hash
    /\ heap[global_chain[3]].previous_hash # heap[global_chain[2]].hash

\* what validate() would answer now
ValidateNow(gc, h) == IF IsNetwork THEN validate_chain(gc, h) ELSE is_valid(gc, h)

\* C8. Corruption detection: on a chain of two or more blocks built by
\* add_block alone, overwriting the previous_hash of one block after the first
\* with anything but its predecessor's hash makes validate() answer False.
C8_CorruptionDetected ==
    [][(/\ writes = 0
        /\ op' = "overwrite"
        /\ \E i \in 2..Len(global_chain) :
             /\ heap'[global_chain[i]].previous_hash # heap[global_chain[i]].previous_hash
             /\ heap'[global_chain[i]].previous_hash # heap[global_chain[i - 1]].hash)
       => ~ValidateNow(global_chain', heap')]_vars

C8_Witness ==
    /\ writes = 1
    /\ op = "overwrite"
    /\ Len(global_chain) = 3
    /\ heap[global_chain[3]].previous_hash = Tampered
    /\ heap[global_chain[2]].previous_hash = heap[global_chain[1]].hash

\* C9. Hash determinism: with the simulated (deterministic) circuit, blocks
\* created from the same transactions and the same previous_hash have the same
\* hash, whichever node created them and whatever was created in between.
C9_HashDeterminism ==
    system # "cosmos" =>
        \A a, b \in DOMAIN heap :
            (/\ heap[a].transactions = heap[b].transactions
             /\ heap[a].previous_hash = heap[b].previous_hash)
            => heap[a].hash = heap[b].hash

C9_Witness ==
    /\ system = "eth"
    /\ Len(nodes) = 2
    /\ Len(heap) = 3
    /\ heap[1].transactions = heap[3].transactions
    /\ heap[1].previous_hash = heap[3].previous_hash
    /\ heap[2].transactions # heap[1].transactions
    /\ heap[1].hash = heap[3].hash
    /\ global_chain = <<1, 2>>
    /\ chain[1] = <<1, 1, 2, 2>>
    /\ chain[2] = <<1, 2, 3>>

\* the cost of an ordering: the sum over adjacent pairs of |hash(a) - hash(b)|
RECURSIVE AdjacentCost(_, _, _)
AdjacentCost(q, h, i) ==
    IF i >= Len(q) THEN 0
    ELSE (IF h[q[i]] >= h[q[i + 1]] THEN h[q[i]] - h[q[i + 1]]
                                    ELSE h[q[i + 1]] - h[q[i]])
         + AdjacentCost(q, h, i + 1)

Count(q, t) == Cardinality({i \in DOMAIN q : q[i] = t})

\* the orderings of the positions 1..n
PositionOrders(n) == {pi \in [1..n -> 1..n] : Range(pi) = 1..n}

Reorder(s, pi) == [i \in 1..Len(s) |-> s[pi[i]]]

LexLess(pi, rho) ==
    \E k \in DOMAIN pi : pi[k] < rho[k] /\ \A j \in 1..(k - 1) : pi[j] = rho[j]

\* the least cost over all position orders of s
LeastCost(s, h) ==
    LET costs == {AdjacentCost(Reorder(s, pi), h, 1) : pi \in PositionOrders(Len(s))}
    IN CHOOSE c \in costs : \A d \in costs : c <= d

\* the position orders of least cost
Cheapest(s, h) ==
    LET least == LeastCost(s, h)
    IN {pi \in PositionOrders(Len(s)) : AdjacentCost(Reorder(s, pi), h, 1) = least}

\* C10. Optimizer correctness: optimize returns a permutation of its input
\* (same length, same multiset) of least adjacent cost among all n! orderings,
\* namely the one that comes first by position among those of least cost, and
\* it leaves the caller's list as it was.
C10_OptimizerCorrect ==
    [][op' = "optimize" =>
        LET cheapest == Cheapest(pending, str_hash)
            first == CHOOSE pi \in cheapest :
                       \A rho \in cheapest : rho = pi \/ LexLess(pi, rho)
        IN /\ pending' = pending
           /\ Len(best_order') = Len(pending)
           /\ \A t \in Texts : Count(best_order', t) = Count(pending, t)
           /\ AdjacentCost(best_order', str_hash, 1) = LeastCost(pending, str_hash)
           /\ best_order' = Reorder(pending, first)]_vars

C10_Witness ==
    /\ op = "optimize"
    /\ Len(pending) = 3
    /\ best_order # pending
    /\ Cardinality(Range(pending)) = 3
    /\ Cardinality(Cheapest(pending, str_hash)) > 1
    /\ Cardinality(Cheapest(pending, str_hash)) < 6

\* what a call can raise
Errors == {"IndexError", "ValueError", "ConnectionError"}

\* C11. Optimizer identity on trivial input: optimize of the empty list
\* returns the empty list and optimize of a one-element list returns that
\* one-element list, and neither call raises.
C11_OptimizerTrivialInput ==
    [][(op' = "optimize" /\ Len(pending) <= 1) =>
        /\ best_order' = pending
        /\ ret' \notin Errors]_vars

C11_Witness ==
    /\ op = "optimize"
    /\ Len(pending) = 1
    /\ best_order = pending
    /\ ret = "list"

\* C12. add_block returns the block it created: a completed add_block hands
\* the caller the Block it appended to the canonical chain.
C12_AddBlockReturnsBlock ==
    (op = "add_block" /\ ret \notin Errors) => ret = "block"

\* C13. Empty batch: add_block with no transactions raises nothing and appends
\* exactly one block, whose transactions are empty and whose previous_hash is
\* the hash of the block that was last (or the genesis sentinel).
C13_EmptyBatch ==
    [][(AddBlock(<<>>) \/ BlockchainAddBlock(<<>>)) =>
        /\ ret' \notin Errors
        /\ Len(global_chain') = Len(global_chain) + 1
        /\ SubSeq(global_chain', 1, Len(global_chain)) = global_chain
        /\ heap'[Last(global_chain')].transactions = <<>>
        /\ heap'[Last(global_chain')].previous_hash
             = (IF global_chain = <<>> THEN GenesisHash
                ELSE heap[Last(global_chain)].hash)]_vars

\* The same on a network with a producer node (and on qtp.py's blockchain),
\* where add_block does not raise.
EmptyBatchOnProducer ==
    [][((AddBlock(<<>>) \/ BlockchainAddBlock(<<>>)) /\ ~(IsNetwork /\ nodes = <<>>)) =>
        /\ ret' \notin Errors
        /\ Len(global_chain') = Len(global_chain) + 1
        /\ SubSeq(global_chain', 1, Len(global_chain)) = global_chain
        /\ heap'[Last(global_chain')].transactions = <<>>
        /\ heap'[Last(global_chain')].previous_hash
             = (IF global_chain = <<>> THEN GenesisHash
                ELSE heap[Last(global_chain)].hash)]_vars

\* C19. No failure in normal operation: whatever the number of nodes, zero
\* included, add_block, validate and optimize complete without raising, and
\* add_block appends exactly one block to the canonical chain.
C19_NoFailure ==
    [][op' \in {"add_block", "validate", "optimize"} =>
        /\ ret' \notin Errors
        /\ op' = "add_block" => Len(global_chain') = Len(global_chain) + 1]_vars

\* C16. Hash formula: a block's hash is the digest of its transactions'
\* concatenation, its previous_hash and the circuit's output, so, the digest
\* being injective, two blocks that differ in the concatenation of their
\* transactions or in previous_hash have different hashes, with every block
\* constructor of the source.
C16_HashBindsContent ==
    \A a, b \in DOMAIN heap :
        (\/ Join(heap[a].transactions) # Join(heap[b].transactions)
         \/ heap[a].previous_hash # heap[b].previous_hash)
        => heap[a].hash # heap[b].hash

\* The same for the blocks of the network scripts, which hash
\* ''.join(transactions) + previous_hash + the circuit's output.
HashBindsContentInNetwork ==
    IsNetwork =>
        /\ C16_HashBindsContent
        /\ \A a \in DOMAIN heap : \E out \in CircuitOutputs(system) :
             heap[a].hash = Sha256Hex(Join(heap[a].transactions)
                                        \o heap[a].previous_hash \o out)

\* C14. Not-configured precondition: create_transaction or transfer_erc20
\* called while no contract is deployed raises the "not deployed" error at
\* once: no call to the Ethereum node is made, and the canonical chain, every
\* replica, the node lists and the contract field stay as they were.
C14_NotConfigured ==
    [][(op' \in {"create_transaction", "transfer_erc20"} /\ contract = "None") =>
        /\ ret' = "ValueError"
        /\ web3_calls' = <<>>
        /\ UNCHANGED <<contract, global_chain, chain, heap, nodes, connected_nodes>>]_vars

C14_Witness ==
    /\ op = "transfer_erc20"
    /\ ret = "ValueError"
    /\ contract = "None"
    /\ web3_calls = <<>>
    /\ Len(global_chain) = 2
    /\ Len(nodes) = 2

\* C15. Concurrent add_block calls serialize: when all the calls have
\* returned, the state is one that the calls run one after the other produce;
\* in particular no two blocks of the canonical chain carry the same
\* previous_hash and every block but the first carries its predecessor's hash.
C15_CallsSerialize ==
    Quiescent =>
        /\ \A i, j \in DOMAIN global_chain :
             i # j => heap[global_chain[i]].previous_hash
                        # heap[global_chain[j]].previous_hash
        /\ Linked(global_chain, heap)

\* C17. Optimizer reproducibility across processes: two processes that differ
\* only in the seed of their string hash return the same ordering for the
\* same list of transactions.
C17_SameOrderInEveryProcess ==
    [][(op = "optimize" /\ op' = "peer_optimize") => peer'.best_order = best_order]_vars

\* how often node n is among the first k entries of the registration list
Registrations(n, k) == Count(SubSeq(connected_nodes, 1, k), n)

\* C18. Cloud broadcast covers the registration list in order: once the loop
\* of a broadcast has passed the first k entries of the list, every node has
\* received the block once for each of its entries among those k, after what
\* it held before; so at the end a node registered m times has received m
\* appends and a node that was never registered none.
C18_BroadcastCoversRegistrations ==
    \A t \in Threads :
        (threads[t].pc = "broadcast" /\ threads[t].before # <<>>) =>
            \A n \in DOMAIN chain :
                chain[n] = threads[t].before[n]
                             \o [k \in 1..Registrations(n, threads[t].i - 1)
                                   |-> threads[t].new_block]

C18_Witness ==
    /\ threads[1].pc = "broadcast"
    /\ connected_nodes = <<1, 1>>
    /\ threads[1].i = 3
    /\ threads[1].before = <<<<>>, <<1>>>>
    /\ chain = <<<<1, 1>>, <<1>>>>

\* C20. The sampled variant is non-deterministic: with the single-shot
\* measurement a new block's hash is the digest of its data followed by the
\* outcome of that one shot, so that two create_block calls with the same
\* transactions and previous_hash can store different hashes; and no operation
\* changes the hash stored in a block that exists.
C20_SampledHashStored ==
    [][/\ \A a \in DOMAIN heap :
            a \in DOMAIN heap' /\ heap'[a].hash = heap[a].hash
       /\ system = "cosmos" =>
            \A a \in DOMAIN heap' \ DOMAIN heap :
                \E m \in Measurements :
                    heap'[a].hash = Sha256Hex(Join(heap'[a].transactions)
                                                \o heap'[a].previous_hash \o m)]_vars

C20_Witness ==
    /\ system = "cosmos"
    /\ op = "create_block"
    /\ Len(heap) = 3
    /\ heap[1].transactions = heap[3].transactions
    /\ heap[1].previous_hash = heap[3].previous_hash
    /\ heap[1].hash # heap[3].hash
    /\ heap[2].previous_hash = heap[1].hash

\* C21. validate() agrees with the data model's valid chain: on any contents
\* of the canonical chain it answers True only if every block after the first
\* carries its predecessor's hash and the first block's previous_hash is the
\* genesis sentinel of 64 zeros.
C21_ValidateMeansValidChain ==
    (op = "validate" /\ ret = "True") =>
        /\ Linked(global_chain, heap)
        /\ global_chain # <<>> =>
             heap[global_chain[1]].previous_hash = GenesisHash

\* C21, amended. validate() answers True only if every block after the first
\* carries its predecessor's hash; it does not read the first block's
\* previous_hash, so with the links intact it answers True whether or not
\* that field is the genesis sentinel.
C21_ValidateMeansLinked ==
    op = "validate" =>
        /\ ret = "True" => Linked(global_chain, heap)
        /\ (/\ global_chain # <<>>
            /\ heap[global_chain[1]].previous_hash # GenesisHash
            /\ Linked(global_chain, heap)) => ret = "True"

C21_Witness ==
    /\ system = "eth"
    /\ op = "validate"
    /\ ret = "True"
    /\ writes = 1
    /\ Len(global_chain) = 2
    /\ heap[global_chain[1]].previous_hash = Tampered
    /\ heap[global_chain[2]].previous_hash = heap[global_chain[1]].hash

\* the replicas of the nodes other than the producer nodes[0]
Followers == IF nodes = <<>> THEN {} ELSE Range(nodes) \ {nodes[1]}

IsPrefix(s, q) == Len(s) <= Len(q) /\ SubSeq(q, 1, Len(s)) = s

\* C22. Step order inside add_block: the producer creates the block, then the
\* block is appended to the canonical chain, and only then broadcast. So, with
\* a single caller, in every state between the statements and after them the
\* replica of every node other than the producer is a prefix of the canonical
\* chain and at most one block shorter.
C22_StepOrder ==
    /\ \A n \in Followers :
         /\ IsPrefix(chain[n], global_chain)
         /\ Len(global_chain) - Len(chain[n]) <= 1
    /\ threads[1].pc = "chain_append" =>
         /\ threads[1].new_block = Len(heap)
         /\ \A n \in DOMAIN chain : threads[1].new_block \notin Range(chain[n])
         /\ threads[1].new_block \notin Range(global_chain)
    /\ threads[1].pc = "global_append" =>
         /\ Last(chain[nodes[1]]) = threads[1].new_block
         /\ \A n \in Followers : threads[1].new_block \notin Range(chain[n])
         /\ threads[1].new_block \notin Range(global_chain)
    /\ threads[1].pc = "broadcast" =>
         /\ Last(global_chain) = threads[1].new_block
         /\ \A n \in Followers :
              (threads[1].new_block \in Range(chain[n]))
                <=> (\E j \in 1..(threads[1].i - 1) : connected_nodes[j] = n)

C22_Witness ==
    /\ threads[1].pc = "broadcast"
    /\ threads[1].i = 2
    /\ nodes = <<1, 2>>
    /\ global_chain = <<1, 2>>
    /\ chain[1] = <<1, 1, 2, 2>>
    /\ chain[2] = <<1>>

====
